---- MODULE Spec2Model ----
(***************************************************************************)
(* localcode: the model-serving orchestrator of src/runner.rs and the      *)
(* `start`, `stop` and `status` commands of src/main.rs.                   *)
(*                                                                         *)
(* Text is modelled as sequences of one-character strings, so that         *)
(* split('/'), contains(..), format!(..) are computed as the code computes *)
(* them.  The container runtime (docker), the download client (hf_hub)     *)
(* and the file system are the environment: every command the code issues  *)
(* draws its outcome from the outcomes that environment can produce.       *)
(***************************************************************************)
EXTENDS Naturals, Sequences, FiniteSets

(***************************************************************************)
(* Bounds of the model.                                                    *)
(***************************************************************************)
\* number of concurrently running localcode processes
NumProcs == 2
\* longest list of model selections in the saved configuration
MaxModels == 2
\* most lines the server instance writes to its log
MaxLogLines == 2

(***************************************************************************)
(* Text constants of the program.                                          *)
(***************************************************************************)
\* "bartowski/"
BartowskiPrefix ==
  <<"b","a","r","t","o","w","s","k","i","/">>
\* "-GGUF"
GgufRepoSuffix ==
  <<"-","G","G","U","F">>
\* ".gguf"
GgufFileSuffix ==
  <<".","g","g","u","f">>
\* "-"
Dash ==
  <<"-">>
\* "https://huggingface.co/lmstudio-community/Meta-Llama-3-70B-Instruct-GGUF/resolve/main/Meta-Llama-3-70B-Instruct-Q4_K_M.gguf"
UrlLlama3_70b ==
  <<"h","t","t","p","s",":","/","/","h","u","g","g","i","n","g","f","a","c","e",".","c","o","/","l","m","s","t","u","d","i","o","-","c","o","m","m","u","n","i","t","y","/","M","e","t","a","-","L","l","a","m","a","-","3","-","7","0","B","-","I","n","s","t","r","u","c","t","-","G","G","U","F","/","r","e","s","o","l","v","e","/","m","a","i","n","/","M","e","t","a","-","L","l","a","m","a","-","3","-","7","0","B","-","I","n","s","t","r","u","c","t","-","Q","4","_","K","_","M",".","g","g","u","f">>
\* "https://huggingface.co/TheBloke/Mixtral-8x7B-Instruct-v0.1-GGUF/resolve/main/mixtral-8x7b-instruct-v0.1.Q4_K_M.gguf"
UrlMixtral ==
  <<"h","t","t","p","s",":","/","/","h","u","g","g","i","n","g","f","a","c","e",".","c","o","/","T","h","e","B","l","o","k","e","/","M","i","x","t","r","a","l","-","8","x","7","B","-","I","n","s","t","r","u","c","t","-","v","0",".","1","-","G","G","U","F","/","r","e","s","o","l","v","e","/","m","a","i","n","/","m","i","x","t","r","a","l","-","8","x","7","b","-","i","n","s","t","r","u","c","t","-","v","0",".","1",".","Q","4","_","K","_","M",".","g","g","u","f">>
\* "https://huggingface.co/lmstudio-community/Meta-Llama-3-8B-Instruct-GGUF/resolve/main/Meta-Llama-3-8B-Instruct-Q4_K_M.gguf"
UrlLlama3_8b ==
  <<"h","t","t","p","s",":","/","/","h","u","g","g","i","n","g","f","a","c","e",".","c","o","/","l","m","s","t","u","d","i","o","-","c","o","m","m","u","n","i","t","y","/","M","e","t","a","-","L","l","a","m","a","-","3","-","8","B","-","I","n","s","t","r","u","c","t","-","G","G","U","F","/","r","e","s","o","l","v","e","/","m","a","i","n","/","M","e","t","a","-","L","l","a","m","a","-","3","-","8","B","-","I","n","s","t","r","u","c","t","-","Q","4","_","K","_","M",".","g","g","u","f">>
\* "https://huggingface.co/microsoft/Phi-3-mini-4k-instruct-gguf/resolve/main/Phi-3-mini-4k-instruct-q4.gguf"
UrlPhi3 ==
  <<"h","t","t","p","s",":","/","/","h","u","g","g","i","n","g","f","a","c","e",".","c","o","/","m","i","c","r","o","s","o","f","t","/","P","h","i","-","3","-","m","i","n","i","-","4","k","-","i","n","s","t","r","u","c","t","-","g","g","u","f","/","r","e","s","o","l","v","e","/","m","a","i","n","/","P","h","i","-","3","-","m","i","n","i","-","4","k","-","i","n","s","t","r","u","c","t","-","q","4",".","g","g","u","f">>
\* "https://huggingface.co/google/gemma-2b-it-GGUF/resolve/main/2b-it-v1.1-q4_k_m.gguf"
UrlGemma ==
  <<"h","t","t","p","s",":","/","/","h","u","g","g","i","n","g","f","a","c","e",".","c","o","/","g","o","o","g","l","e","/","g","e","m","m","a","-","2","b","-","i","t","-","G","G","U","F","/","r","e","s","o","l","v","e","/","m","a","i","n","/","2","b","-","i","t","-","v","1",".","1","-","q","4","_","k","_","m",".","g","g","u","f">>
\* "https://huggingface.co/Qwen/Qwen2-7B-Instruct-GGUF/resolve/main/qwen2-7b-instruct-q4_k_m.gguf"
UrlQwen2 ==
  <<"h","t","t","p","s",":","/","/","h","u","g","g","i","n","g","f","a","c","e",".","c","o","/","Q","w","e","n","/","Q","w","e","n","2","-","7","B","-","I","n","s","t","r","u","c","t","-","G","G","U","F","/","r","e","s","o","l","v","e","/","m","a","i","n","/","q","w","e","n","2","-","7","b","-","i","n","s","t","r","u","c","t","-","q","4","_","k","_","m",".","g","g","u","f">>
\* "https://huggingface.co/TheBloke/Mistral-7B-Instruct-v0.2-GGUF/resolve/main/mistral-7b-instruct-v0.2.Q4_K_M.gguf"
UrlMistral ==
  <<"h","t","t","p","s",":","/","/","h","u","g","g","i","n","g","f","a","c","e",".","c","o","/","T","h","e","B","l","o","k","e","/","M","i","s","t","r","a","l","-","7","B","-","I","n","s","t","r","u","c","t","-","v","0",".","2","-","G","G","U","F","/","r","e","s","o","l","v","e","/","m","a","i","n","/","m","i","s","t","r","a","l","-","7","b","-","i","n","s","t","r","u","c","t","-","v","0",".","2",".","Q","4","_","K","_","M",".","g","g","u","f">>
\* "llama3-70b-instruct"
NameLlama3_70b ==
  <<"l","l","a","m","a","3","-","7","0","b","-","i","n","s","t","r","u","c","t">>
\* "mixtral-8x7b-instruct"
NameMixtral ==
  <<"m","i","x","t","r","a","l","-","8","x","7","b","-","i","n","s","t","r","u","c","t">>
\* "llama3-8b-instruct"
NameLlama3_8b ==
  <<"l","l","a","m","a","3","-","8","b","-","i","n","s","t","r","u","c","t">>
\* "phi3-mini"
NamePhi3 ==
  <<"p","h","i","3","-","m","i","n","i">>
\* "gemma-2b-it"
NameGemma ==
  <<"g","e","m","m","a","-","2","b","-","i","t">>
\* "qwen2-7b-instruct"
NameQwen2 ==
  <<"q","w","e","n","2","-","7","b","-","i","n","s","t","r","u","c","t">>
\* "mistral-7b-instruct"
NameMistral ==
  <<"m","i","s","t","r","a","l","-","7","b","-","i","n","s","t","r","u","c","t">>
\* "author/llama3-8b-instruct"
NameAuthorLlama ==
  <<"a","u","t","h","o","r","/","l","l","a","m","a","3","-","8","b","-","i","n","s","t","r","u","c","t">>
\* "some-custom-model"
NameCustom ==
  <<"s","o","m","e","-","c","u","s","t","o","m","-","m","o","d","e","l">>
\* "Q4_K_M"
QuantQ4 ==
  <<"Q","4","_","K","_","M">>
\* "Phi3-Mini"
NamePhi3Upper ==
  <<"P","h","i","3","-","M","i","n","i">>
\* "some-0.5b-model"
NameHalfB ==
  <<"s","o","m","e","-","0",".","5","b","-","m","o","d","e","l">>
\* "Qwen/Qwen2.5-Coder-1.5B"
NameQwenCoder ==
  <<"Q","w","e","n","/","Q","w","e","n","2",".","5","-","C","o","d","e","r","-","1",".","5","B">>
\* "org/team/model"
NameNested ==
  <<"o","r","g","/","t","e","a","m","/","m","o","d","e","l">>
\* "Q8_0"
QuantQ8 ==
  <<"Q","8","_","0">>
\* "default"
DefaultModelName ==
  <<"d","e","f","a","u","l","t">>
\* "could not select device driver"
SigDriver ==
  <<"c","o","u","l","d"," ","n","o","t"," ","s","e","l","e","c","t"," ","d","e","v","i","c","e"," ","d","r","i","v","e","r">>
\* "nvidia"
SigNvidia ==
  <<"n","v","i","d","i","a">>
\* "could not select device driver with capabilities: [[gpu]]"
ErrDriver ==
  <<"c","o","u","l","d"," ","n","o","t"," ","s","e","l","e","c","t"," ","d","e","v","i","c","e"," ","d","r","i","v","e","r"," ","w","i","t","h"," ","c","a","p","a","b","i","l","i","t","i","e","s",":"," ","[","[","g","p","u","]","]">>
\* "nvidia-container-cli: initialization error"
ErrNvidiaCli ==
  <<"n","v","i","d","i","a","-","c","o","n","t","a","i","n","e","r","-","c","l","i",":"," ","i","n","i","t","i","a","l","i","z","a","t","i","o","n"," ","e","r","r","o","r">>
\* "NVIDIA driver not loaded"
ErrNvidiaUpper ==
  <<"N","V","I","D","I","A"," ","d","r","i","v","e","r"," ","n","o","t"," ","l","o","a","d","e","d">>
\* "port is already allocated"
ErrPort ==
  <<"p","o","r","t"," ","i","s"," ","a","l","r","e","a","d","y"," ","a","l","l","o","c","a","t","e","d">>
\* "Conflict. The container name is already in use"
ErrConflict ==
  <<"C","o","n","f","l","i","c","t","."," ","T","h","e"," ","c","o","n","t","a","i","n","e","r"," ","n","a","m","e"," ","i","s"," ","a","l","r","e","a","d","y"," ","i","n"," ","u","s","e">>
\* "Cannot connect to the Docker daemon"
ErrDaemon ==
  <<"C","a","n","n","o","t"," ","c","o","n","n","e","c","t"," ","t","o"," ","t","h","e"," ","D","o","c","k","e","r"," ","d","a","e","m","o","n">>
\* "--hf-file "
HfFileFlag ==
  <<"-","-","h","f","-","f","i","l","e"," ">>
\* "--hf-repo "
HfRepoFlag ==
  <<"-","-","h","f","-","r","e","p","o"," ">>
\* "llama-server --port ${PORT} "
CmdHead ==
  <<"l","l","a","m","a","-","s","e","r","v","e","r"," ","-","-","p","o","r","t"," ","$","{","P","O","R","T","}"," ">>
\* " --host 0.0.0.0 --ctx-size 8192"
CmdTail ==
  <<" ","-","-","h","o","s","t"," ","0",".","0",".","0",".","0"," ","-","-","c","t","x","-","s","i","z","e"," ","8","1","9","2">>
\* " "
Space ==
  <<" ">>

(***************************************************************************)
(* Text helpers.                                                           *)
(***************************************************************************)
\* str::contains: `sub` occurs in `s` as a contiguous run of characters
Contains(s, sub) ==
  \E k \in 0..(Len(s) - Len(sub)) :
     \A j \in 1..Len(sub) : s[k + j] = sub[j]

\* position (1-based) of the first `sep` in s, or 0
FirstIndexOf(s, sep) ==
  IF \E k \in 1..Len(s) : s[k] = sep
    THEN CHOOSE k \in 1..Len(s) : s[k] = sep /\ \A j \in 1..(k - 1) : s[j] # sep
    ELSE 0

\* str::split(sep).collect(): the pieces between the separators, in order
RECURSIVE Split(_, _)
Split(s, sep) ==
  LET k == FirstIndexOf(s, sep) IN
  IF k = 0 THEN <<s>>
  ELSE <<SubSeq(s, 1, k - 1)>> \o Split(SubSeq(s, k + 1, Len(s)), sep)

(***************************************************************************)
(* ModelSelection { name, quant: Option<String> }                          *)
(***************************************************************************)
NoQuant == [some |-> FALSE, val |-> <<>>]
SomeQuant(q) == [some |-> TRUE, val |-> q]
Selection(n, q) == [name |-> n, quant |-> q]

(***************************************************************************)
(* extract_hf_repo_and_file                                                *)
(***************************************************************************)
\* a catalog with no fallback arm
CatalogUrlNoDefault(model_name) ==
  CASE model_name = NameLlama3_70b -> UrlLlama3_70b
    [] model_name = NameMixtral    -> UrlMixtral
    [] model_name = NameLlama3_8b  -> UrlLlama3_8b
    [] model_name = NamePhi3       -> UrlPhi3
    [] model_name = NameGemma      -> UrlGemma
    [] model_name = NameQwen2      -> UrlQwen2
    [] model_name = NameMistral    -> UrlMistral
    [] OTHER                       -> <<>>

\* the static catalog and its fallback arm
CatalogUrl(model_name) ==
  CASE model_name = NameLlama3_70b -> UrlLlama3_70b
    [] model_name = NameMixtral    -> UrlMixtral
    [] model_name = NameLlama3_8b  -> UrlLlama3_8b
    [] model_name = NamePhi3       -> UrlPhi3
    [] model_name = NameGemma      -> UrlGemma
    [] model_name = NameQwen2      -> UrlQwen2
    [] model_name = NameMistral    -> UrlMistral
    [] OTHER                       -> UrlLlama3_8b

\* the last part instead of the second
BaseNameLast(model_name) ==
  LET parts == Split(model_name, "/") IN parts[Len(parts)]

\* parts[1] when split('/') yields more than one part, else the whole name
BaseName(model_name) ==
  LET parts == Split(model_name, "/") IN
  IF Len(parts) > 1 THEN parts[2] ELSE model_name

\* (repo, file): file is an Option<String>
ExtractHfRepoAndFile(model_name, quant) ==
  IF quant.some
    THEN [repo |-> BartowskiPrefix \o BaseName(model_name) \o GgufRepoSuffix,
          file |-> [some |-> TRUE,
                    val  |-> BaseName(model_name) \o Dash \o quant.val \o GgufFileSuffix]]
    ELSE [repo |-> <<>>,
          file |-> [some |-> TRUE, val |-> CatalogUrl(model_name)]]

(***************************************************************************)
(* is_autocomplete_model                                                   *)
(***************************************************************************)
UpperChars ==
  <<"A","B","C","D","E","F","G","H","I","J","K","L","M",
    "N","O","P","Q","R","S","T","U","V","W","X","Y","Z">>
LowerChars ==
  <<"a","b","c","d","e","f","g","h","i","j","k","l","m",
    "n","o","p","q","r","s","t","u","v","w","x","y","z">>

\* char::to_lowercase on the ASCII range
LowerChar(c) ==
  IF \E k \in 1..Len(UpperChars) : UpperChars[k] = c
    THEN LowerChars[CHOOSE k \in 1..Len(UpperChars) : UpperChars[k] = c]
    ELSE c

\* str::to_lowercase
ToLowercase(s) == [k \in 1..Len(s) |-> LowerChar(s[k])]

\* the same test without the lower-casing
IsAutocompleteModelCaseSensitive(model_name) ==
     \/ Contains(model_name, <<"m","i","n","i">>)
     \/ Contains(model_name, <<"c","o","d","e","r">>)
     \/ Contains(model_name, <<"1",".","5","b">>)
     \/ Contains(model_name, <<"2","b">>)
     \/ Contains(model_name, <<"0",".","5","b">>)

IsAutocompleteModel(model_name) ==
  LET lower == ToLowercase(model_name) IN
     \/ Contains(lower, <<"m","i","n","i">>)
     \/ Contains(lower, <<"c","o","d","e","r">>)
     \/ Contains(lower, <<"1",".","5","b">>)
     \/ Contains(lower, <<"2","b">>)
     \/ Contains(lower, <<"0",".","5","b">>)

(***************************************************************************)
(* The routing configuration start_llama_swap_docker writes to             *)
(* llama-swap.yaml: the `models:` entries in order, each with its `cmd:`   *)
(* line, and the groups of the `groups:` section (no section when no       *)
(* model qualifies).                                                       *)
(***************************************************************************)
FileArg(file) == IF file.some THEN HfFileFlag \o file.val ELSE <<>>

\* the flag written whatever the repo is
RepoArgAlways(repo) == HfRepoFlag \o repo

RepoArg(repo) == IF repo # <<>> THEN HfRepoFlag \o repo ELSE <<>>

CmdLine(m) ==
  LET t == ExtractHfRepoAndFile(m.name, m.quant) IN
  CmdHead \o RepoArg(t.repo) \o Space \o FileArg(t.file) \o CmdTail

\* the weight file a models entry makes the server load
WeightRef(m) ==
  LET t == ExtractHfRepoAndFile(m.name, m.quant) IN
  [repo |-> t.repo, file |-> t.file.val]

ModelEntry(m) == [name |-> m.name, cmd |-> CmdLine(m), weights |-> WeightRef(m)]

\* every selected name as a member
AutocompleteMembersAll(ms) == [k \in 1..Len(ms) |-> ms[k].name]

RECURSIVE AutocompleteMembers(_)
AutocompleteMembers(ms) ==
  IF ms = <<>> THEN <<>>
  ELSE (IF IsAutocompleteModel(Head(ms).name) THEN <<Head(ms).name>> ELSE <<>>)
         \o AutocompleteMembers(Tail(ms))

\* "\ngroups:\n  autocomplete:\n    persistent: true\n    swap: false\n
\*  exclusive: false\n    members:\n" and one "- <name>" line per member
AutocompleteGroup(members) ==
  [name |-> "autocomplete", persistent |-> TRUE, swap |-> FALSE,
   exclusive |-> FALSE, members |-> members]

\* the groups section: written only when a model qualified
GroupsSection(members) ==
  IF members # <<>> THEN <<AutocompleteGroup(members)>> ELSE <<>>

\* the entries in the reverse of the input order
GenerateConfigReversed(ms) ==
  [present |-> TRUE,
   models  |-> [k \in 1..Len(ms) |-> ModelEntry(ms[Len(ms) + 1 - k])],
   groups  |-> GroupsSection(AutocompleteMembers(ms))]

GenerateConfig(ms) ==
  [present |-> TRUE,
   models  |-> [k \in 1..Len(ms) |-> ModelEntry(ms[k])],
   groups  |-> GroupsSection(AutocompleteMembers(ms))]

NoConfig == [present |-> FALSE, models |-> <<>>, groups |-> <<>>]

(***************************************************************************)
(* The container runtime, as the docker commands of runner.rs see it.      *)
(*   runtime = "up"      the CLI runs and reaches the daemon               *)
(*             "down"    the CLI runs, the daemon cannot be reached        *)
(*             "broken"  the CLI runs and every command exits unsuccessful *)
(*             "missing" the CLI cannot be executed (spawn error)          *)
(***************************************************************************)
RuntimeStates == {"up", "down", "broken", "missing"}

ContainerName == "opencode-llm"
CudaImage == "ghcr.io/mostlygeek/llama-swap:cuda"
CpuImage == "ghcr.io/mostlygeek/llama-swap:cpu"

\* `docker logs --tail 50`
LogTail == 50

Procs == 1..NumProcs

\* the marker line the server writes once it accepts requests, and another line
ListeningLine == "listening"
LogLines == {ListeningLine, "loading", ""}

Named(cs, name) == {c \in cs : c.name = name}

\* the argument list asks for the accelerator
RequestsGpu(a) == \E k \in 1..Len(a) : a[k] = "--gpus"

\* what a failed `docker run` can print: the accelerator errors arise only
\* when the accelerator is requested
LaunchErrors(a) ==
  IF RequestsGpu(a) THEN {ErrDriver, ErrNvidiaCli, ErrNvidiaUpper, ErrPort}
  ELSE {ErrPort}

\* `docker --version`
DockerVersion(rt) ==
  CASE rt = "missing" -> [spawned |-> FALSE, success |-> FALSE]
    [] rt = "broken"  -> [spawned |-> TRUE,  success |-> FALSE]
    [] OTHER          -> [spawned |-> TRUE,  success |-> TRUE]

\* `docker rm -f <name>`: the outcomes the runtime can produce.  Removing an
\* absent name exits 0 or 1 depending on the docker version.
DockerRm(rt, cs, name) ==
  CASE rt = "missing" -> {[spawned |-> FALSE, success |-> FALSE, containers |-> cs]}
    [] rt \in {"down", "broken"} ->
         {[spawned |-> TRUE, success |-> FALSE, containers |-> cs]}
    [] OTHER ->
         IF Named(cs, name) # {}
           THEN {[spawned |-> TRUE, success |-> TRUE,
                  containers |-> cs \ Named(cs, name)]}
           ELSE {[spawned |-> TRUE, success |-> s, containers |-> cs] :
                   s \in BOOLEAN}

\* the value following `flag` in an argument list, "" when the flag is absent
ArgAfter(a, flag) ==
  IF \E k \in 1..(Len(a) - 1) : a[k] = flag
    THEN a[1 + CHOOSE k \in 1..(Len(a) - 1) :
                 a[k] = flag /\ \A j \in 1..(k - 1) : a[j] # flag]
    ELSE ""

\* the instance a `docker run -d <a>` by process p creates
NewContainer(p, a, st) ==
  [id    |-> p,
   name  |-> ArgAfter(a, "--name"),
   image |-> a[Len(a)],
   gpu   |-> RequestsGpu(a),
   state |-> st,
   log   |-> <<>>]

\* the runtime refuses a name that is in use
NameInUse(cs, name) == Named(cs, name) # {}

\* `docker run -d ...`: the outcomes the runtime can produce.  A launch that
\* fails after the instance was created leaves it behind, not started.
DockerRun(rt, cs, p, a) ==
  CASE rt = "missing" ->
         {[spawned |-> FALSE, success |-> FALSE, stderr |-> <<>>, containers |-> cs]}
    [] rt \in {"down", "broken"} ->
         {[spawned |-> TRUE, success |-> FALSE, stderr |-> ErrDaemon, containers |-> cs]}
    [] OTHER ->
         IF NameInUse(cs, ArgAfter(a, "--name"))
           THEN {[spawned |-> TRUE, success |-> FALSE, stderr |-> ErrConflict,
                  containers |-> cs]}
           ELSE {[spawned |-> TRUE, success |-> TRUE, stderr |-> <<>>,
                  containers |-> cs \cup {NewContainer(p, a, "running")}]}
                \cup
                {[spawned |-> TRUE, success |-> FALSE, stderr |-> e,
                  containers |-> cs \cup left] :
                   e \in LaunchErrors(a),
                   left \in {{}, {NewContainer(p, a, "created")}}}

(***************************************************************************)
(* State.                                                                  *)
(***************************************************************************)
VARIABLES
  runtime,     \* reachability of the container runtime
  containers,  \* the instances the runtime holds
  cache,       \* the (repo, file) entries of the model cache directory
  configFile,  \* llama-swap.yaml in the models directory
  models,      \* the selections of the saved localcode configuration
  pc,          \* per process: where it is in its command
  cmd,         \* per process: the command it runs ("start", "stop", "status")
  idx,         \* per process: the selection download_models is at
  args,        \* per process: the `docker run` argument list
  result,      \* per process: what the command returned
  issued,      \* per process: the external operations of this command, in order
  stream,      \* per process: the log stream of the `docker logs -f` child
  shown,       \* per process: what the child wrote to the terminal
  last,        \* how the command that ended most recently launched the server
  opencode     \* config.json of the downstream tool, as far as the provider goes

vars == <<runtime, containers, cache, configFile, models, pc, cmd, idx, args,
          result, issued, stream, shown, last, opencode>>

NoResult == [tag |-> "none", stage |-> "none", stderr |-> <<>>]
Ok == [tag |-> "ok", stage |-> "none", stderr |-> <<>>]
Err(stage, text) == [tag |-> "err", stage |-> stage, stderr |-> text]

NoStream == [open |-> FALSE, id |-> 0, pos |-> 0]

Op(name, ok, text, gpu) == [op |-> name, ok |-> ok, err |-> text, gpu |-> gpu]

(***************************************************************************)
(* config.json of the downstream tool: whether the file exists, whether    *)
(* its JSON is an object, and the "model" of its "llm" and                 *)
(* "tabAutocompleteModel" entries (Option<String>).                        *)
(***************************************************************************)
NoName == [some |-> FALSE, val |-> <<>>]
SomeName(n) == [some |-> TRUE, val |-> n]

NoOpencode == [exists |-> FALSE, object |-> TRUE, llm |-> NoName, auto |-> NoName]

\* what serde_json::from_str(..).unwrap_or_else(|_| json!({})) yields: the
\* embedded template when there is no file, else the file's JSON
LoadOpencode(file) ==
  IF file.exists THEN file ELSE [file EXCEPT !.object = TRUE]

\* `else if standard_model_name == "default" { standard_model_name = name }`
FirstStandard(standard, name) ==
  IF standard = DefaultModelName THEN name ELSE standard

\* the loop over the selections: (standard_model_name, autocomplete_model_name)
RECURSIVE ChooseModels(_, _)
ChooseModels(ms, st) ==
  IF ms = <<>> THEN st
  ELSE LET name == Head(ms).name IN
       IF IsAutocompleteModel(name)
         THEN ChooseModels(Tail(ms),
                [st EXCEPT !.auto = IF ~st.auto.some THEN SomeName(name) ELSE @])
         ELSE ChooseModels(Tail(ms),
                [st EXCEPT !.standard = FirstStandard(st.standard, name)])

\* obj.insert("llm", ..) and, for Some(auto_name), obj.insert("tabAutocompleteModel", ..)
InsertProvider(config, ms) ==
  LET st == ChooseModels(ms, [standard |-> DefaultModelName, auto |-> NoName])
  IN IF config.object
       THEN [config EXCEPT !.llm = SomeName(st.standard),
                           !.auto = IF st.auto.some THEN st.auto ELSE @]
       ELSE config

\* the file after fs::write(config_path, ..)
ConfigureOpencode(file, ms) ==
  [InsertProvider(LoadOpencode(file), ms) EXCEPT !.exists = TRUE]

\* the selections a saved configuration can hold
Pool ==
  {Selection(NamePhi3, NoQuant),
   Selection(NameAuthorLlama, SomeQuant(QuantQ4))}

SelectionLists ==
  UNION {[1..n -> Pool] : n \in 1..MaxModels}

\* the selections the resolution and the generated configuration are
\* exercised with: every catalog identifier, names the catalog does not
\* hold, and names with a quantization tag (with no, one and two '/')
GeneratePool ==
  {Selection(n, NoQuant) :
     n \in {NameLlama3_70b, NameMixtral, NameLlama3_8b, NamePhi3, NameGemma,
            NameQwen2, NameMistral, NameCustom, NamePhi3Upper, NameHalfB}}
  \cup
  {Selection(NamePhi3, SomeQuant(QuantQ4)),
   Selection(NameAuthorLlama, SomeQuant(QuantQ4)),
   Selection(NameCustom, SomeQuant(QuantQ4)),
   Selection(NameQwenCoder, SomeQuant(QuantQ8)),
   Selection(NameNested, SomeQuant(QuantQ8))}

GenerateLists ==
  UNION {[1..n -> GeneratePool] : n \in 1..MaxModels}

\* an instance left by an earlier session
EarlierInstance ==
  [id |-> 0, name |-> ContainerName, image |-> CudaImage, gpu |-> TRUE,
   state |-> "running", log |-> <<>>]

Init ==
  /\ runtime \in RuntimeStates
  /\ containers \in {{}, {EarlierInstance}}
  /\ cache = {}
  /\ configFile = NoConfig
  /\ models \in SelectionLists
  /\ pc = [p \in Procs |-> "idle"]
  /\ cmd = [p \in Procs |-> "none"]
  /\ idx = [p \in Procs |-> 0]
  /\ args = [p \in Procs |-> <<>>]
  /\ result = [p \in Procs |-> NoResult]
  /\ issued = [p \in Procs |-> <<>>]
  /\ stream = [p \in Procs |-> NoStream]
  /\ shown = [p \in Procs |-> <<>>]
  /\ last = "none"
  /\ opencode = NoOpencode

\* a command ends: its result is kept until the process exits
Finish(p, r) ==
  /\ pc' = [pc EXCEPT ![p] = "done"]
  /\ result' = [result EXCEPT ![p] = r]

Issue(p, e) == issued' = [issued EXCEPT ![p] = Append(@, e)]

(***************************************************************************)
(* main, Commands::Start: load the saved configuration, then               *)
(* download_models, then start_llama_swap_docker.                          *)
(***************************************************************************)
StartCommand(p) ==
  /\ pc[p] = "idle"
  /\ cmd' = [cmd EXCEPT ![p] = "start"]
  /\ \E loaded \in {"load_error", "native", "docker"} :
       CASE loaded = "load_error" ->
              /\ Finish(p, Err("config", <<>>))
              /\ UNCHANGED idx
         [] loaded = "native" ->
              /\ Finish(p, Ok)
              /\ UNCHANGED idx
         [] OTHER ->
              /\ pc' = [pc EXCEPT ![p] = "download"]
              /\ idx' = [idx EXCEPT ![p] = 0]
              /\ UNCHANGED result
  /\ UNCHANGED <<runtime, containers, cache, configFile, models, args, issued,
                 stream, shown, last, opencode>>

\* a caller that goes on whatever download_models returned
AfterDownloadIgnored(downloaded) == "check"

\* main's handling of download_models' result: an error exits the process
AfterDownload(downloaded) == IF downloaded THEN "check" ELSE "done"

\* a handler that takes the server down when the download failed
OnDownloadErrorStops(cs) == cs \ Named(cs, ContainerName)

\* main's `if let Err(e)` arm prints the error and exits: the instances are
\* not touched
OnDownloadError(cs) == cs

DownloadReturn(p, downloaded, e) ==
  /\ pc' = [pc EXCEPT ![p] = AfterDownload(downloaded)]
  /\ containers' = IF AfterDownload(downloaded) = "done"
                     THEN OnDownloadError(containers) ELSE containers
  /\ result' = [result EXCEPT ![p] =
                  IF AfterDownload(downloaded) = "done"
                    THEN Err("download", <<>>) ELSE @]
  /\ Issue(p, e)

\* ApiBuilder::new().with_cache_dir(..).build()?
DownloadBegin(p) ==
  /\ pc[p] = "download"
  /\ idx[p] = 0
  /\ \E built \in BOOLEAN :
       IF built
         THEN /\ idx' = [idx EXCEPT ![p] = 1]
              /\ UNCHANGED <<pc, result, issued, containers>>
         ELSE /\ DownloadReturn(p, FALSE, Op("download", FALSE, <<>>, FALSE))
              /\ UNCHANGED idx
  /\ UNCHANGED <<runtime, cache, configFile, models, cmd, args,
                 stream, shown, last, opencode>>

\* a loop that skips nothing
SkipsDownloadNever(t) == FALSE

\* the selections download_models skips
SkipsDownload(t) == t.repo = <<>> \/ ~t.file.some

\* a loop that goes on after a failed fetch
FetchPassedAlways(fetched) == TRUE

\* `spawn_blocking(..).await??`: a failed fetch returns from download_models
FetchPassed(fetched) == fetched

\* a cache that keeps the latest entry only
StoreLatest(c, key) == {key}

\* repo_api.get(file): the entry is added to the cache directory
Store(c, key) == c \cup {key}

\* one iteration of `for m in models`
DownloadModel(p) ==
  /\ pc[p] = "download"
  /\ idx[p] \in 1..Len(models)
  /\ LET m == models[idx[p]]
         t == ExtractHfRepoAndFile(m.name, m.quant)
         key == [repo |-> t.repo, file |-> t.file.val]
     IN IF SkipsDownload(t)
          THEN /\ idx' = [idx EXCEPT ![p] = @ + 1]
               /\ UNCHANGED <<pc, result, issued, cache, containers>>
          ELSE \E fetched \in (IF key \in cache THEN {TRUE} ELSE BOOLEAN) :
                 IF FetchPassed(fetched)
                   THEN /\ cache' = IF fetched THEN Store(cache, key) ELSE cache
                        /\ idx' = [idx EXCEPT ![p] = @ + 1]
                        /\ Issue(p, Op("fetch", fetched, <<>>, FALSE))
                        /\ UNCHANGED <<pc, result, containers>>
                   ELSE /\ DownloadReturn(p, FALSE, Op("fetch", FALSE, <<>>, FALSE))
                        /\ UNCHANGED <<idx, cache>>
  /\ UNCHANGED <<runtime, configFile, models, cmd, args, stream, shown, last, opencode>>

\* the loop is over: Ok(())
DownloadDone(p) ==
  /\ pc[p] = "download"
  /\ idx[p] > Len(models)
  /\ DownloadReturn(p, TRUE, Op("download", TRUE, <<>>, FALSE))
  /\ UNCHANGED <<runtime, cache, configFile, models, cmd, idx, args,
                 stream, shown, last, opencode>>

(***************************************************************************)
(* start_llama_swap_docker                                                 *)
(***************************************************************************)
\* a check that looks at the spawn only, not at the exit status
CheckPassedSpawned(v) == v.spawned

\* the version command ran and exited successfully
CheckPassed(v) == v.spawned /\ v.success

CheckDocker(p) ==
  /\ pc[p] = "check"
  /\ LET v == DockerVersion(runtime) IN
       /\ Issue(p, Op("version", v.spawned /\ v.success, <<>>, FALSE))
       /\ IF CheckPassed(v)
            THEN /\ pc' = [pc EXCEPT ![p] = "preclean"]
                 /\ UNCHANGED result
            ELSE Finish(p, Err("runtime", <<>>))
  /\ UNCHANGED <<runtime, containers, cache, configFile, models, cmd, idx, args,
                 stream, shown, last, opencode>>

\* the runtime ends the log streams of the instances it removes
Remove(after) ==
  /\ containers' = after
  /\ stream' = [q \in Procs |->
                  IF stream[q].open /\ ~(\E c \in after : c.id = stream[q].id)
                    THEN [stream[q] EXCEPT !.open = FALSE]
                    ELSE stream[q]]

\* a pre-clean whose failure ends the start
AfterPreCleanChecked(o) == IF o.spawned /\ o.success THEN "write" ELSE "done"

\* `let _ = ...output().await`: whatever the outcome, go on
AfterPreClean(o) == "write"

\* a pre-clean that names another instance
PreCleanTargetOther == "opencode"

\* .args(&["rm", "-f", "opencode-llm"])
PreCleanTarget == ContainerName

\* docker rm -f opencode-llm, before the configuration is generated
PreClean(p) ==
  /\ pc[p] = "preclean"
  /\ \E o \in DockerRm(runtime, containers, PreCleanTarget) :
       /\ Remove(o.containers)
       /\ Issue(p, Op("rm", o.spawned /\ o.success, <<>>, FALSE))
       /\ pc' = [pc EXCEPT ![p] = AfterPreClean(o)]
  /\ UNCHANGED <<runtime, cache, configFile, models, cmd, idx, args, result, shown, last, opencode>>

\* a name that differs from one process to the other
InstanceNamePerProcess(p) ==
  IF p = 1 THEN ContainerName ELSE "opencode-llm-other"

\* "--name", "opencode-llm": the same name whoever launches
InstanceName(p) == ContainerName

\* the argument list of the first launch (the port and the paths are fixed text here)
LaunchArgs(p) ==
  <<"run", "-d", "--name", InstanceName(p), "--gpus", "all",
    "-e", "HF_HOME=/models", "-p", "PORT:8080", "-v", "MODELS_DIR:/models",
    "-v", "MODELS_DIR/llama-swap.yaml:/app/config.yaml", CudaImage>>

\* tokio::fs::write(config_path, yaml_content).await?
WriteConfig(p) ==
  /\ pc[p] = "write"
  /\ \E written \in BOOLEAN :
       IF written
         THEN /\ configFile' = GenerateConfig(models)
              /\ args' = [args EXCEPT ![p] = LaunchArgs(p)]
              /\ pc' = [pc EXCEPT ![p] = "launch"]
              /\ Issue(p, Op("write", TRUE, <<>>, FALSE))
              /\ UNCHANGED result
         ELSE /\ Finish(p, Err("write", <<>>))
              /\ Issue(p, Op("write", FALSE, <<>>, FALSE))
              /\ UNCHANGED <<configFile, args>>
  /\ UNCHANGED <<runtime, containers, cache, models, cmd, idx, stream, shown, last, opencode>>

\* a detection that takes every failure for an absent accelerator
HasGpuSignatureAny(stderr) == TRUE

\* stderr.contains("could not select device driver") || stderr.contains("nvidia")
HasGpuSignature(stderr) == Contains(stderr, SigDriver) \/ Contains(stderr, SigNvidia)

\* position of the first element equal to x (0: none)
Position(a, x) ==
  IF \E k \in 1..Len(a) : a[k] = x
    THEN CHOOSE k \in 1..Len(a) : a[k] = x /\ \A j \in 1..(k - 1) : a[j] # x
    ELSE 0

\* Vec::remove(pos), pos 1-based here
RemoveAt(a, pos) == SubSeq(a, 1, pos - 1) \o SubSeq(a, pos + 1, Len(a))

\* a fallback that drops the accelerator request and keeps the image
FallbackArgsKeepImage(a) ==
  LET g == Position(a, "--gpus")
  IN IF g > 0 THEN RemoveAt(RemoveAt(a, g), g) ELSE a

\* remove "--gpus" and "all", then replace the cuda image by the cpu image
FallbackArgs(a) ==
  LET g == Position(a, "--gpus")
      b == IF g > 0 THEN RemoveAt(RemoveAt(a, g), g) ELSE a
      i == Position(b, CudaImage)
  IN IF i > 0 THEN [b EXCEPT ![i] = CpuImage] ELSE b

\* a fallback that tells the user nothing
FallbackOpsSilent(failed) == <<failed>>

\* the failed launch, then the println! lines that announce the CPU mode
FallbackOps(failed) == <<failed, Op("announce", TRUE, <<>>, FALSE)>>

\* the first `docker run`, with the accelerator request
LaunchGpu(p) ==
  /\ pc[p] = "launch"
  /\ \E o \in DockerRun(runtime, containers, p, args[p]) :
       /\ containers' = o.containers
       /\ IF ~o.spawned
            THEN /\ Finish(p, Err("spawn", <<>>))
                 /\ Issue(p, Op("run", FALSE, <<>>, RequestsGpu(args[p])))
                 /\ UNCHANGED args
            ELSE IF o.success
            THEN /\ Finish(p, Ok)
                 /\ Issue(p, Op("run", TRUE, <<>>, RequestsGpu(args[p])))
                 /\ UNCHANGED args
            ELSE IF HasGpuSignature(o.stderr)
            THEN /\ issued' = [issued EXCEPT ![p] =
                       @ \o FallbackOps(Op("run", FALSE, o.stderr, RequestsGpu(args[p])))]
                 /\ args' = [args EXCEPT ![p] = FallbackArgs(@)]
                 /\ pc' = [pc EXCEPT ![p] = "fallback"]
                 /\ UNCHANGED result
            ELSE /\ Finish(p, Err("launch", o.stderr))
                 /\ Issue(p, Op("run", FALSE, o.stderr, RequestsGpu(args[p])))
                 /\ UNCHANGED args
  /\ UNCHANGED <<runtime, cache, configFile, models, cmd, idx, stream, shown, last, opencode>>

\* a fallback that removes the named instance before it launches again
LeftForFallbackCleaned(cs) == cs \ Named(cs, ContainerName)

\* between the failed launch and the second one the code edits the argument
\* list only: the instances are what the first attempt left
LeftForFallback(cs) == cs

\* the second `docker run`, after the fallback announcement
LaunchCpu(p) ==
  /\ pc[p] = "fallback"
  /\ \E o \in DockerRun(runtime, LeftForFallback(containers), p, args[p]) :
       /\ containers' = o.containers
       /\ Issue(p, Op("run", o.spawned /\ o.success, o.stderr, RequestsGpu(args[p])))
       /\ IF ~o.spawned
            THEN Finish(p, Err("spawn", <<>>))
            ELSE IF o.success
            THEN Finish(p, Ok)
            ELSE Finish(p, Err("fallback", o.stderr))
  /\ UNCHANGED <<runtime, cache, configFile, models, cmd, idx, args, stream, shown, last, opencode>>

(***************************************************************************)
(* stop_server                                                             *)
(***************************************************************************)
\* a removal that names another instance
StopTargetOther == "opencode"

\* `docker rm -f opencode-llm`
StopTarget == ContainerName

\* a result that takes an unsuccessful exit status for an error
StopResultStrict(o) == IF o.spawned /\ o.success THEN Ok ELSE Err("rm", <<>>)

\* `.output().await?` fails only when the command cannot be executed; the
\* exit status decides the message alone
StopResult(o) == IF o.spawned THEN Ok ELSE Err("spawn", <<>>)

StopCommand(p) ==
  /\ pc[p] = "idle"
  /\ cmd' = [cmd EXCEPT ![p] = "stop"]
  /\ \E o \in DockerRm(runtime, containers, StopTarget) :
       /\ Remove(o.containers)
       /\ Issue(p, Op("rm", o.spawned /\ o.success, <<>>, FALSE))
       /\ Finish(p, StopResult(o))
  /\ UNCHANGED <<runtime, cache, configFile, models, idx, args, shown, last, opencode>>

(***************************************************************************)
(* show_status                                                             *)
(***************************************************************************)
\* where `docker logs --tail 50` starts in a log of n lines
TailStart(n) == IF n > LogTail THEN n - LogTail ELSE 0

\* the stream the `docker logs -f --tail 50 opencode-llm` child gets
Attach(rt, cs) ==
  IF rt = "up" /\ Named(cs, ContainerName) # {}
    THEN LET c == CHOOSE c \in Named(cs, ContainerName) : TRUE IN
         [open |-> TRUE, id |-> c.id, pos |-> TailStart(Len(c.log))]
    ELSE NoStream

StatusCommand(p) ==
  /\ pc[p] = "idle"
  /\ cmd' = [cmd EXCEPT ![p] = "status"]
  /\ IF runtime = "missing"
       THEN /\ Finish(p, Err("spawn", <<>>))
            /\ Issue(p, Op("logs", FALSE, <<>>, FALSE))
            /\ UNCHANGED stream
       ELSE /\ pc' = [pc EXCEPT ![p] = "watch"]
            /\ stream' = [stream EXCEPT ![p] = Attach(runtime, containers)]
            /\ Issue(p, Op("logs", TRUE, <<>>, FALSE))
            /\ UNCHANGED result
  /\ UNCHANGED <<runtime, containers, cache, configFile, models, idx, args, shown, last, opencode>>

\* a child whose output is classified
EmitClassified(line) ==
  IF line = ListeningLine THEN [kind |-> "ready", text |-> line]
  ELSE [kind |-> "raw", text |-> line]

\* a child whose output is turned into a fallback event
EmitGeneric(line) == [kind |-> "generic", text |-> line]

\* the child inherits the terminal: a line is written as it is
Emit(line) == [kind |-> "raw", text |-> line]

\* the child writes the next line of the instance's log
ChildForwards(p) ==
  /\ pc[p] = "watch"
  /\ stream[p].open
  /\ \E c \in containers :
       /\ c.id = stream[p].id
       /\ stream[p].pos < Len(c.log)
       /\ shown' = [shown EXCEPT ![p] = Append(@, Emit(c.log[stream[p].pos + 1]))]
  /\ stream' = [stream EXCEPT ![p].pos = @ + 1]
  /\ UNCHANGED <<runtime, containers, cache, configFile, models, pc, cmd, idx,
                 args, result, issued, last, opencode>>

\* the child has nothing more to follow: the stream was closed, or the
\* instance is not running and its log is written out
ChildAtEof(p) ==
  \/ ~stream[p].open
  \/ \E c \in containers :
       c.id = stream[p].id /\ c.state # "running" /\ stream[p].pos = Len(c.log)

\* the exit status of the child: `docker logs` fails when it finds no
\* instance under the name or cannot reach the daemon
ChildExit(p) == [success |-> stream[p].open]

\* a watch that reports the failure of the child
WaitResultChecked(exit) == IF exit.success THEN Ok ELSE Err("logs", <<>>)

\* `_ = child.wait() => {}` and then Ok(()): the exit status is not looked at
WaitResult(exit) == Ok

\* select!: child.wait() completes
WatchChildExit(p) ==
  /\ pc[p] = "watch"
  /\ ChildAtEof(p)
  /\ Finish(p, WaitResult(ChildExit(p)))
  /\ Issue(p, Op("eof", TRUE, <<>>, FALSE))
  /\ stream' = [stream EXCEPT ![p] = NoStream]
  /\ UNCHANGED <<runtime, containers, cache, configFile, models, cmd, idx, args,
                 shown, last, opencode>>

\* an interrupt that stops the server as well
KillChildAndServer(cs) == {[c EXCEPT !.state = "exited"] : c \in cs}

\* what child.kill() does to the instances: it ends the child only
KillChild(cs) == cs

\* select!: ctrl_c() completes, the child is killed
WatchInterrupt(p) ==
  /\ pc[p] = "watch"
  /\ containers' = KillChild(containers)
  /\ Finish(p, Ok)
  /\ Issue(p, Op("kill", TRUE, <<>>, FALSE))
  /\ stream' = [stream EXCEPT ![p] = NoStream]
  /\ UNCHANGED <<runtime, cache, configFile, models, cmd, idx, args, shown, last, opencode>>

\* the launch of a command that succeeded: with the accelerator ("gpu"),
\* without ("cpu"), or "none"
Launched(log) ==
  IF \E k \in 1..Len(log) : log[k].op = "run" /\ log[k].ok
    THEN LET k == CHOOSE k \in 1..Len(log) : log[k].op = "run" /\ log[k].ok
         IN IF log[k].gpu THEN "gpu" ELSE "cpu"
    ELSE "none"

\* the process exits
ProcessExit(p) ==
  /\ pc[p] = "done"
  /\ pc' = [pc EXCEPT ![p] = "idle"]
  /\ cmd' = [cmd EXCEPT ![p] = "none"]
  /\ idx' = [idx EXCEPT ![p] = 0]
  /\ args' = [args EXCEPT ![p] = <<>>]
  /\ result' = [result EXCEPT ![p] = NoResult]
  /\ issued' = [issued EXCEPT ![p] = <<>>]
  /\ shown' = [shown EXCEPT ![p] = <<>>]
  /\ last' = Launched(issued[p])
  /\ UNCHANGED <<runtime, containers, cache, configFile, models, stream, opencode>>

(***************************************************************************)
(* The environment.                                                        *)
(***************************************************************************)
\* the running server writes a line to its log
ServerLogs ==
  /\ \E c \in containers :
       /\ c.state = "running"
       /\ Len(c.log) < MaxLogLines
       /\ \E l \in LogLines :
            containers' = (containers \ {c}) \cup {[c EXCEPT !.log = Append(@, l)]}
  /\ UNCHANGED <<runtime, cache, configFile, models, pc, cmd, idx, args, result,
                 issued, stream, shown, last, opencode>>

\* the runtime becomes (un)reachable
RuntimeChange ==
  /\ \E r \in RuntimeStates \ {runtime} : runtime' = r
  /\ UNCHANGED <<containers, cache, configFile, models, pc, cmd, idx, args,
                 result, issued, stream, shown, last, opencode>>

(***************************************************************************)
(* main, Commands::Init: profile, prompt, configure_opencode, then         *)
(* save_localcode_config.                                                  *)
(***************************************************************************)
InitCommand(p) ==
  /\ pc[p] = "idle"
  /\ cmd' = [cmd EXCEPT ![p] = "init"]
  /\ \E prompted \in BOOLEAN :
       IF prompted
         THEN /\ pc' = [pc EXCEPT ![p] = "configure"]
              /\ UNCHANGED result
         ELSE Finish(p, Err("prompt", <<>>))
  /\ UNCHANGED <<runtime, containers, cache, configFile, models, idx, args,
                 issued, stream, shown, last, opencode>>

\* configure_opencode(&user_config.models, ..).await?
ConfigureStep(p) ==
  /\ pc[p] = "configure"
  /\ \E written \in BOOLEAN :
       IF written
         THEN /\ opencode' = ConfigureOpencode(opencode, models)
              /\ pc' = [pc EXCEPT ![p] = "save"]
              /\ Issue(p, Op("opencode", TRUE, <<>>, FALSE))
              /\ UNCHANGED result
         ELSE /\ Finish(p, Err("opencode", <<>>))
              /\ Issue(p, Op("opencode", FALSE, <<>>, FALSE))
              /\ UNCHANGED opencode
  /\ UNCHANGED <<runtime, containers, cache, configFile, models, cmd, idx, args,
                 stream, shown, last>>

\* save_localcode_config(&user_config, ..).await?
SaveStep(p) ==
  /\ pc[p] = "save"
  /\ \E saved \in BOOLEAN :
       /\ Finish(p, IF saved THEN Ok ELSE Err("save", <<>>))
       /\ Issue(p, Op("save", saved, <<>>, FALSE))
  /\ UNCHANGED <<runtime, containers, cache, configFile, models, cmd, idx, args,
                 stream, shown, last, opencode>>

\* the init command
Setup(p) ==
  \/ InitCommand(p)
  \/ ConfigureStep(p)
  \/ SaveStep(p)
  \/ ProcessExit(p)

\* the commands of start and stop
Lifecycle(p) ==
  \/ StartCommand(p)
  \/ DownloadBegin(p)
  \/ DownloadModel(p)
  \/ DownloadDone(p)
  \/ CheckDocker(p)
  \/ PreClean(p)
  \/ WriteConfig(p)
  \/ LaunchGpu(p)
  \/ LaunchCpu(p)
  \/ StopCommand(p)
  \/ ProcessExit(p)

\* the status command
Status(p) ==
  \/ StatusCommand(p)
  \/ ChildForwards(p)
  \/ WatchChildExit(p)
  \/ WatchInterrupt(p)

\* the one process of an interactive session
Session == 1

\* one session, one command after the other, in an environment that changes
Next ==
  \/ Lifecycle(Session)
  \/ Status(Session)
  \/ ServerLogs
  \/ RuntimeChange

Spec == Init /\ [][Next]_vars

\* one session while the reachability of the runtime stays what it is
NextStable ==
  \/ Lifecycle(Session)
  \/ Status(Session)
  \/ ServerLogs

SpecStable == Init /\ [][NextStable]_vars

\* the session under the scheduling of the async runtime: a select! whose
\* child.wait() branch is ready is eventually resumed
SpecWatchFair == Spec /\ WF_vars(WatchChildExit(Session))

\* start and stop commands of one session over every list of selections,
\* with a runtime that is reachable
InitGenerate ==
  /\ runtime = "up"
  /\ containers = {}
  /\ cache = {}
  /\ configFile = NoConfig
  /\ models \in GenerateLists
  /\ pc = [p \in Procs |-> "idle"]
  /\ cmd = [p \in Procs |-> "none"]
  /\ idx = [p \in Procs |-> 0]
  /\ args = [p \in Procs |-> <<>>]
  /\ result = [p \in Procs |-> NoResult]
  /\ issued = [p \in Procs |-> <<>>]
  /\ stream = [p \in Procs |-> NoStream]
  /\ shown = [p \in Procs |-> <<>>]
  /\ last = "none"
  /\ opencode = NoOpencode

NextGenerate == Lifecycle(Session)

SpecGenerate == InitGenerate /\ [][NextGenerate]_vars

\* the selections the models directory is exercised with: two that are
\* fetched and one that is skipped
DirectoryPool ==
  {Selection(NameAuthorLlama, SomeQuant(QuantQ4)),
   Selection(NameCustom, SomeQuant(QuantQ4)),
   Selection(NamePhi3, NoQuant)}

DirectoryLists ==
  UNION {[1..n -> DirectoryPool] : n \in 1..MaxModels}

\* one session of start, watch and stop commands over the models directory
InitDirectory ==
  /\ runtime = "up"
  /\ containers = {}
  /\ cache = {}
  /\ configFile = NoConfig
  /\ models \in DirectoryLists
  /\ pc = [p \in Procs |-> "idle"]
  /\ cmd = [p \in Procs |-> "none"]
  /\ idx = [p \in Procs |-> 0]
  /\ args = [p \in Procs |-> <<>>]
  /\ result = [p \in Procs |-> NoResult]
  /\ issued = [p \in Procs |-> <<>>]
  /\ stream = [p \in Procs |-> NoStream]
  /\ shown = [p \in Procs |-> <<>>]
  /\ last = "none"
  /\ opencode = NoOpencode

SpecDirectory == InitDirectory /\ [][NextStable]_vars

\* the selections init is exercised with; one is named like the literal
\* the main model starts from
SetupPool ==
  {Selection(n, NoQuant) :
     n \in {DefaultModelName, NameLlama3_8b, NamePhi3, NameGemma, NameMistral}}

SetupLists ==
  UNION {[1..n -> SetupPool] : n \in 1..MaxModels}

\* the config.json files init can find: none, an object with no provider
\* entry, an object written by an earlier init, and JSON that is no object
FoundOpencode ==
  {NoOpencode,
   [exists |-> TRUE, object |-> TRUE, llm |-> NoName, auto |-> NoName],
   [exists |-> TRUE, object |-> TRUE, llm |-> SomeName(NameMixtral),
    auto |-> SomeName(NameQwenCoder)],
   [exists |-> TRUE, object |-> FALSE, llm |-> NoName, auto |-> NoName]}

\* one session of init commands
InitSetup ==
  /\ runtime = "up"
  /\ containers = {}
  /\ cache = {}
  /\ configFile = NoConfig
  /\ models \in SetupLists
  /\ pc = [p \in Procs |-> "idle"]
  /\ cmd = [p \in Procs |-> "none"]
  /\ idx = [p \in Procs |-> 0]
  /\ args = [p \in Procs |-> <<>>]
  /\ result = [p \in Procs |-> NoResult]
  /\ issued = [p \in Procs |-> <<>>]
  /\ stream = [p \in Procs |-> NoStream]
  /\ shown = [p \in Procs |-> <<>>]
  /\ last = "none"
  /\ opencode \in FoundOpencode

NextSetup == Setup(Session)

SpecSetup == InitSetup /\ [][NextSetup]_vars

\* start and stop commands of several processes, interleaved
InitConcurrent ==
  /\ Init
  /\ runtime = "up"
  /\ models = <<Selection(NameAuthorLlama, SomeQuant(QuantQ4))>>

NextConcurrent == \E p \in Procs : Lifecycle(p)

SpecConcurrent == InitConcurrent /\ [][NextConcurrent]_vars

(***************************************************************************)
(* Claims.                                                                 *)
(***************************************************************************)
\* the launch attempts (`docker run`) in a command's operations
RunsOf(log) == {k \in 1..Len(log) : log[k].op = "run"}

\* the accelerator-absence signature, as the specification words it
AbsenceSignature(text) ==
  Contains(text, SigDriver) \/ Contains(text, SigNvidia)

\* C1: a start makes at most two launch attempts; a second attempt follows
\* only a failed first attempt whose stderr carries the accelerator-absence
\* signature, and is made without the accelerator request; a failed launch
\* without the signature is the command's last operation and the command
\* returns an error; a start that ended after a first failure with the
\* signature made exactly one further attempt.
C1_LaunchAttempts ==
  \A p \in Procs :
    LET log == issued[p]
        R == RunsOf(log)
    IN /\ Cardinality(R) <= 2
       /\ \A j, k \in R :
            j < k => /\ ~log[j].ok
                     /\ AbsenceSignature(log[j].err)
                     /\ log[j].gpu
                     /\ ~log[k].gpu
       /\ \A k \in R :
            (~log[k].ok /\ ~AbsenceSignature(log[k].err)) =>
               /\ k = Len(log)
               /\ pc[p] = "done"
               /\ result[p].tag = "err"
       /\ \A k \in R :
            (pc[p] = "done" /\ log[k].gpu /\ ~log[k].ok
               /\ AbsenceSignature(log[k].err)) =>
               /\ Cardinality(R) = 2
               /\ \E j \in R : j > k /\ ~log[j].gpu

\* a start that failed first with the signature and then failed again
C1_Witness ==
  \E p \in Procs :
    /\ pc[p] = "done"
    /\ result[p].tag = "err"
    /\ Cardinality(RunsOf(issued[p])) = 2
    /\ \E k \in RunsOf(issued[p]) :
         issued[p][k].gpu /\ AbsenceSignature(issued[p][k].err)

\* C2: when a start that launched the server (on the accelerator or on the
\* CPU fallback) is followed by a stop, the runtime holds no instance under
\* the fixed name once the stop has ended.
C2_StartThenStop ==
  \A p \in Procs :
    (pc[p] = "done" /\ cmd[p] = "stop" /\ last \in {"gpu", "cpu"}) =>
       Named(containers, ContainerName) = {}

\* a stop has ended after a start that launched on the CPU fallback
C2_Witness ==
  \E p \in Procs :
    /\ pc[p] = "done"
    /\ cmd[p] = "stop"
    /\ last = "cpu"
    /\ result[p] = Ok

\* C3: where the docker command can be executed, a stop returns success; a
\* stop with no instance under the fixed name leaves the instances as they
\* are; and a stop called again right after a stop returns success and
\* leaves the instances as the first call left them.
C3_StopIdempotent ==
  [][\A p \in Procs :
       (pc[p] = "idle" /\ cmd'[p] = "stop" /\ runtime # "missing") =>
          /\ result'[p] = Ok
          /\ (Named(containers, ContainerName) = {} => containers' = containers)
          /\ \A o \in DockerRm(runtime', containers', StopTarget) :
                StopResult(o) = Ok /\ o.containers = containers']_vars

\* a stop found no instance (the removal exited unsuccessfully on a reachable
\* runtime) and returned success
C3_Witness ==
  \E p \in Procs :
    /\ pc[p] = "done"
    /\ cmd[p] = "stop"
    /\ runtime = "up"
    /\ ~issued[p][1].ok
    /\ result[p] = Ok
    /\ Named(containers, ContainerName) = {}

\* C4: a stop returns an error exactly when the container runtime cannot be
\* reached, so a stop that returned success has left no instance under the
\* fixed name.
C4_StopErrorIffUnreachable ==
  \A p \in Procs :
    (pc[p] = "done" /\ cmd[p] = "stop") =>
       /\ (result[p].tag = "err") <=> (runtime # "up")
       /\ (result[p].tag = "ok") => Named(containers, ContainerName) = {}

\* the operations of start_llama_swap_docker
StartOps == {"version", "rm", "write", "run", "announce"}

\* C5: in a start command every operation of the container start step comes
\* after download_models has returned success, no fetch comes after it has
\* returned, and once the download step has failed the command has ended
\* with the download error and holds no operation of the container start
\* step (no version check, removal, config write or launch).
C5_DownloadBeforeStart ==
  \A p \in Procs :
    LET log == issued[p] IN
    cmd[p] = "start" =>
    /\ \A k \in 1..Len(log) :
         log[k].op \in StartOps =>
           \E j \in 1..(k - 1) : log[j].op = "download" /\ log[j].ok
    /\ \A k \in 1..Len(log) :
         log[k].op = "fetch" =>
           \A j \in 1..(k - 1) : log[j].op \notin StartOps \cup {"download"}
    /\ \A k \in 1..Len(log) :
         (log[k].op \in {"fetch", "download"} /\ ~log[k].ok) =>
           /\ k = Len(log)
           /\ \A j \in 1..Len(log) : log[j].op \notin StartOps
           /\ pc[p] = "done"
           /\ result[p] = Err("download", <<>>)

\* a start ended at the failed fetch of its second selection
C5_Witness ==
  \E p \in Procs :
    /\ pc[p] = "done"
    /\ cmd[p] = "start"
    /\ result[p] = Err("download", <<>>)
    /\ idx[p] = 2
    /\ issued[p][Len(issued[p])] = Op("fetch", FALSE, <<>>, FALSE)

\* C6: when a start has launched a container, every weight file a models
\* entry of the routing configuration refers to is in the model cache.
C6_WeightsCached ==
  \A p \in Procs :
    (pc[p] = "done" /\ cmd[p] = "start" /\ result[p] = Ok
       /\ Launched(issued[p]) # "none") =>
       \A k \in 1..Len(configFile.models) :
          configFile.models[k].weights \in cache

\* C7: whatever the interleaving of start and stop commands, the runtime
\* holds at most one server instance, and it is under the fixed name.
C7_SingleInstance ==
  /\ Cardinality(containers) <= 1
  /\ \A c \in containers : c.name = ContainerName

\* two starts have interleaved: one launched the instance, the other's launch
\* was refused for the name
C7_Witness ==
  \E p, q \in Procs :
    /\ p # q
    /\ pc[p] = "done" /\ cmd[p] = "start" /\ result[p] = Ok
    /\ pc[q] = "done" /\ cmd[q] = "start"
    /\ result[q] = Err("launch", ErrConflict)
    /\ Cardinality(containers) = 1

\* C8: when the version command cannot be executed or exits unsuccessfully,
\* the start returns the runtime error at once: the check is the command's
\* last operation, it is not repeated, no removal, config write or launch is
\* issued, and the instances and the config file are left as they were.
C8_CheckFailureStops ==
  /\ [][\A p \in Procs :
          (pc[p] = "check" /\ pc'[p] # "check"
             /\ ~(DockerVersion(runtime).spawned /\ DockerVersion(runtime).success)) =>
             /\ pc'[p] = "done"
             /\ result'[p] = Err("runtime", <<>>)
             /\ containers' = containers
             /\ configFile' = configFile]_vars
  /\ [](\A p \in Procs :
          \A k \in 1..Len(issued[p]) :
             (issued[p][k].op = "version" /\ ~issued[p][k].ok) =>
                /\ k = Len(issued[p])
                /\ pc[p] = "done"
                /\ result[p] = Err("runtime", <<>>)
                /\ \A j \in 1..(k - 1) : issued[p][j].op \notin StartOps)

\* a start ended at the failed check while an instance runs under the name
C8_Witness ==
  \E p \in Procs :
    /\ pc[p] = "done"
    /\ result[p] = Err("runtime", <<>>)
    /\ \E c \in Named(containers, ContainerName) : c.state = "running"

\* a step of the status command of process p
WatchStep(p) ==
  /\ \/ pc[p] = "watch"
     \/ pc[p] = "idle" /\ cmd'[p] = "status"
  /\ \/ pc'[p] # pc[p]
     \/ shown'[p] # shown[p]

\* C9: no step of watch changes the instances (their existence, their state),
\* whether watch ends by the interrupt or by the end of the stream, and watch
\* issues nothing but the log command, its end and the kill of its child.
C9_WatchReadOnly ==
  /\ [][\A p \in Procs : WatchStep(p) => containers' = containers]_vars
  /\ [](\A p \in Procs :
          cmd[p] = "status" =>
             \A k \in 1..Len(issued[p]) :
                issued[p][k].op \in {"logs", "eof", "kill"})

\* a watch was interrupted while the instance runs
C9_Witness ==
  \E p \in Procs :
    /\ pc[p] = "done"
    /\ cmd[p] = "status"
    /\ issued[p][Len(issued[p])].op = "kill"
    /\ \E c \in Named(containers, ContainerName) : c.state = "running"

PhaseKinds ==
  <<"ready", "metastat", "downloading", "loadingbuffers", "processinglayers",
    "computingcache", "generic">>

C12_WatchEndsWithSuccess ==
  /\ [][\A p \in Procs :
          (pc[p] = "watch" /\ pc'[p] # "watch") =>
             /\ pc'[p] = "done"
             /\ result'[p].tag = "ok"
             /\ issued'[p][Len(issued'[p])].op \in {"eof", "kill"}]_vars
  /\ \A p \in Procs :
       (pc[p] = "watch" /\ ChildAtEof(p)) ~> (pc[p] = "done")

\* a watch started with no instance under the name has returned at the end
\* of the stream
C12_Witness ==
  \E p \in Procs :
    /\ pc[p] = "done"
    /\ cmd[p] = "status"
    /\ result[p].tag = "ok"
    /\ issued[p][Len(issued[p])].op = "eof"
    /\ Named(containers, ContainerName) = {}

\* the positions of '/' in a name
Slashes(n) == {k \in 1..Len(n) : n[k] = "/"}

\* the text between the first '/' of a name and its next '/' (or its end);
\* the whole name when it holds no '/'
SecondSegment(n) ==
  IF Slashes(n) = {} THEN n
  ELSE LET i == CHOOSE k \in Slashes(n) : \A j \in Slashes(n) : k <= j
           later == Slashes(n) \ {i}
           j == IF later = {} THEN Len(n) + 1
                ELSE CHOOSE k \in later : \A l \in later : k <= l
       IN [k \in 1..(j - i - 1) |-> n[i + k]]

\* the URLs of the static catalog
CatalogUrls ==
  {UrlLlama3_70b, UrlMixtral, UrlLlama3_8b, UrlPhi3, UrlGemma, UrlQwen2, UrlMistral}

\* C13: the entry written for a selection with a quantization tag q loads
\* bartowski/<basename>-GGUF and <basename>-<q>.gguf, basename being the
\* second '/'-delimited segment of the name or the whole name, also when the
\* name is a catalog identifier (no catalog URL is used).
C13_QuantTakesDynamicPath ==
  configFile.present =>
    \A k \in 1..Len(models) :
      models[k].quant.some =>
        LET b == SecondSegment(models[k].name)
            w == configFile.models[k].weights
        IN /\ w.repo = <<"b","a","r","t","o","w","s","k","i","/">> \o b
                         \o <<"-","G","G","U","F">>
           /\ w.file = b \o <<"-">> \o models[k].quant.val
                         \o <<".","g","g","u","f">>
           /\ w.file \notin CatalogUrls

\* a configuration was written for a catalog identifier with a tag and for
\* a name of three segments
C13_Witness ==
  /\ configFile.present
  /\ Len(models) = 2
  /\ models[1] = Selection(NamePhi3, SomeQuant(QuantQ4))
  /\ models[2] = Selection(NameNested, SomeQuant(QuantQ8))
  /\ configFile.models[2].weights.file =
       <<"t","e","a","m","-","Q","8","_","0",".","g","g","u","f">>

\* the catalog as pairs of identifier and URL
CatalogPairs ==
  {<<NameLlama3_70b, UrlLlama3_70b>>, <<NameMixtral, UrlMixtral>>,
   <<NameLlama3_8b, UrlLlama3_8b>>, <<NamePhi3, UrlPhi3>>,
   <<NameGemma, UrlGemma>>, <<NameQwen2, UrlQwen2>>,
   <<NameMistral, UrlMistral>>}

\* "https://"
HttpsScheme == <<"h","t","t","p","s",":","/","/">>

\* C14: the entry written for a selection with no quantization tag has an
\* empty repo and a full URL as its file: the catalog's URL for a catalog
\* identifier, the URL of "llama3-8b-instruct" for every other name.
C14_NoQuantResolvesToUrl ==
  configFile.present =>
    \A k \in 1..Len(models) :
      ~models[k].quant.some =>
        LET w == configFile.models[k].weights IN
          /\ w.repo = <<>>
          /\ Len(w.file) > Len(HttpsScheme)
          /\ SubSeq(w.file, 1, Len(HttpsScheme)) = HttpsScheme
          /\ \A pr \in CatalogPairs : models[k].name = pr[1] => w.file = pr[2]
          /\ (\A pr \in CatalogPairs : models[k].name # pr[1]) =>
                \E pr \in CatalogPairs :
                   /\ pr[1] = <<"l","l","a","m","a","3","-","8","b","-",
                                "i","n","s","t","r","u","c","t">>
                   /\ w.file = pr[2]

\* a configuration was written for a catalog identifier and for a name the
\* catalog does not hold, both without a tag
C14_Witness ==
  /\ configFile.present
  /\ Len(models) = 2
  /\ models[1] = Selection(NameGemma, NoQuant)
  /\ models[2] = Selection(NamePhi3Upper, NoQuant)
  /\ configFile.models[1].weights.file = UrlGemma
  /\ configFile.models[2].weights.file = UrlLlama3_8b

\* the tokens of the persistent-group predicate
GroupTokens ==
  {<<"m","i","n","i">>, <<"c","o","d","e","r">>, <<"1",".","5","b">>,
   <<"2","b">>, <<"0",".","5","b">>}

\* the letters of the tokens with their capitals
TokenCapitals ==
  {<<"m","M">>, <<"i","I">>, <<"n","N">>, <<"c","C">>, <<"o","O">>,
   <<"d","D">>, <<"e","E">>, <<"r","R">>, <<"b","B">>}

\* character c is character t in either case
SameIgnoringCase(c, t) == c = t \/ <<t, c>> \in TokenCapitals

\* the name holds one of the tokens, in any mix of cases
HoldsGroupToken(n) ==
  \E t \in GroupTokens :
    \E k \in 0..(Len(n) - Len(t)) :
      \A j \in 1..Len(t) : SameIgnoringCase(n[k + j], t[j])

\* C15: a selected name is put in the persistent group exactly when it
\* holds "mini", "coder", "1.5b", "2b" or "0.5b" in any mix of cases.
C15_PersistentPredicate ==
  configFile.present =>
    \A k \in 1..Len(models) :
      (\E i \in 1..Len(configFile.groups) :
         \E j \in 1..Len(configFile.groups[i].members) :
            configFile.groups[i].members[j] = models[k].name)
        <=> HoldsGroupToken(models[k].name)

\* a configuration was written for a name that qualifies by its capitals
\* only and for a name that does not qualify
C15_Witness ==
  /\ configFile.present
  /\ models = <<Selection(NameQwenCoder, SomeQuant(QuantQ8)),
                Selection(NameLlama3_8b, NoQuant)>>
  /\ Len(configFile.groups) = 1
  /\ configFile.groups[1].members = <<NameQwenCoder>>

\* C16: the models section lists the selections in the order of the input
\* list, entry i being for selection i, and a start that generates the
\* configuration again from the same list writes the same launch commands.
C16_OrderKeptAndRepeatable ==
  /\ [](configFile.present =>
          /\ Len(configFile.models) = Len(models)
          /\ \A k \in 1..Len(models) :
               /\ configFile.models[k].name = models[k].name
               /\ models[k].quant.some =>
                    Contains(configFile.models[k].cmd, models[k].quant.val))
  /\ [][configFile.present =>
          /\ models' = models
          /\ \A k \in 1..Len(configFile.models) :
               configFile'.models[k].cmd = configFile.models[k].cmd]_vars

\* a second start has written the configuration of two different selections
C16_Witness ==
  /\ last \in {"gpu", "cpu"}
  /\ cmd[Session] = "start"
  /\ pc[Session] = "launch"
  /\ configFile.present
  /\ Len(models) = 2
  /\ models[1].name # models[2].name
  /\ configFile.models[1].cmd # configFile.models[2].cmd

\* "--hf-repo"
RepoFlagName == <<"-","-","h","f","-","r","e","p","o">>

\* "--hf-file"
FileFlagName == <<"-","-","h","f","-","f","i","l","e">>

\* every occurrence of the flag in the command is followed by one space and
\* then by the value
FlagCarries(c, flag, value) ==
  \A k \in 0..(Len(c) - Len(flag)) :
    (\A j \in 1..Len(flag) : c[k + j] = flag[j]) =>
       /\ value # <<>>
       /\ k + Len(flag) + 1 + Len(value) <= Len(c)
       /\ c[k + Len(flag) + 1] = " "
       /\ \A j \in 1..Len(value) : c[k + Len(flag) + 1 + j] = value[j]

\* the flag occurs in the command
HasFlag(c, flag) ==
  \E k \in 0..(Len(c) - Len(flag)) : \A j \in 1..Len(flag) : c[k + j] = flag[j]

\* C17: a launch command holds --hf-repo exactly when the resolved repo is
\* not empty and --hf-file exactly when the resolved file is not empty, and
\* each flag it holds is followed by its value.
C17_FlagsOnlyWithValues ==
  configFile.present =>
    \A k \in 1..Len(configFile.models) :
      LET c == configFile.models[k].cmd
          w == configFile.models[k].weights
      IN /\ HasFlag(c, RepoFlagName) <=> w.repo # <<>>
         /\ HasFlag(c, FileFlagName) <=> w.file # <<>>
         /\ FlagCarries(c, RepoFlagName, w.repo)
         /\ FlagCarries(c, FileFlagName, w.file)

\* a configuration with a command that has both flags and one that has the
\* file flag only
C17_Witness ==
  /\ configFile.present
  /\ Len(configFile.models) = 2
  /\ HasFlag(configFile.models[1].cmd, RepoFlagName)
  /\ HasFlag(configFile.models[1].cmd, FileFlagName)
  /\ ~HasFlag(configFile.models[2].cmd, RepoFlagName)
  /\ HasFlag(configFile.models[2].cmd, FileFlagName)

\* the names of the selections, in input order
SelectedNames == [k \in 1..Len(models) |-> models[k].name]

\* C18: the written configuration has a groups section exactly when a
\* selected name qualifies for the persistent group; the section then has
\* one group, persistent and neither swapping nor exclusive, whose members
\* are the qualifying names in input order and no other name.
C18_GroupsSection ==
  configFile.present =>
    /\ Len(configFile.groups) <= 1
    /\ Len(configFile.groups) = 1 <=>
         \E k \in 1..Len(models) : HoldsGroupToken(models[k].name)
    /\ \A i \in 1..Len(configFile.groups) :
         LET g == configFile.groups[i] IN
           /\ g.persistent = TRUE
           /\ g.swap = FALSE
           /\ g.exclusive = FALSE
           /\ g.members = SelectSeq(SelectedNames, HoldsGroupToken)
           /\ \A j \in 1..Len(g.members) : HoldsGroupToken(g.members[j])

\* a configuration was written whose group holds the second and not the
\* first selection
C18_Witness ==
  /\ configFile.present
  /\ Len(models) = 2
  /\ ~HoldsGroupToken(models[1].name)
  /\ Len(configFile.groups) = 1
  /\ configFile.groups[1].members = <<models[2].name>>

\* the argument list b is the list a without its "--gpus" "all" pair and
\* with its last element, the image, replaced
OnlyAcceleratorDropped(a, b) ==
  /\ Len(b) = Len(a) - 2
  /\ \E g \in 1..(Len(a) - 2) :
       /\ a[g] = "--gpus"
       /\ a[g + 1] = "all"
       /\ \A k \in 1..(g - 1) : b[k] = a[k]
       /\ \A k \in g..(Len(b) - 1) : b[k] = a[k + 2]
  /\ \A k \in 1..Len(b) : b[k] # "--gpus"
  /\ a[Len(a)] = "ghcr.io/mostlygeek/llama-swap:cuda"
  /\ b[Len(b)] = "ghcr.io/mostlygeek/llama-swap:cpu"

\* C19: the first launch of a start asks for the accelerator and the
\* accelerator image; the fallback launch has the same arguments but for the
\* accelerator request, which is dropped, and the image, which is the CPU
\* image: name, port mapping, mounts and environment variable are the same.
C19_FallbackChangesOnlyAccelerator ==
  /\ [](\A p \in Procs :
          /\ pc[p] = "launch" =>
               /\ \E g \in 1..(Len(args[p]) - 1) :
                     args[p][g] = "--gpus" /\ args[p][g + 1] = "all"
               /\ args[p][Len(args[p])] = "ghcr.io/mostlygeek/llama-swap:cuda"
               /\ RunsOf(issued[p]) = {}
          /\ \A k \in RunsOf(issued[p]) :
               issued[p][k].gpu <=> (\A j \in RunsOf(issued[p]) : k <= j))
  /\ [][\A p \in Procs :
          (pc[p] = "launch" /\ pc'[p] = "fallback") =>
             /\ OnlyAcceleratorDropped(args[p], args'[p])
             /\ \A f \in {"--name", "-e", "-p", "-v"} :
                  ArgAfter(args'[p], f) = ArgAfter(args[p], f)
             /\ ArgAfter(args'[p], "--name") = "opencode-llm"]_vars
  /\ [][\A p \in Procs :
          pc[p] = "fallback" =>
             \A c \in containers' \ containers :
                /\ c.name = "opencode-llm"
                /\ c.image = "ghcr.io/mostlygeek/llama-swap:cpu"
                /\ ~c.gpu]_vars

\* a start has launched the server with the fallback arguments
C19_Witness ==
  \E p \in Procs :
    /\ pc[p] = "done"
    /\ cmd[p] = "start"
    /\ result[p].tag = "ok"
    /\ Len(args[p]) = 13
    /\ \E c \in containers :
         c.image = "ghcr.io/mostlygeek/llama-swap:cpu" /\ c.state = "running"

\* C20: whatever the pre-clean removal of a start does (it removes the
\* instance, finds none, or fails), the start goes on: the next thing it
\* does is to write the configuration and, once that is written, to launch.
C20_PreCleanNeverFailsStart ==
  /\ [][\A p \in Procs :
          (pc[p] = "preclean" /\ pc'[p] # "preclean") =>
             /\ pc'[p] = "write"
             /\ result'[p] = result[p]
             /\ result'[p].tag # "err"]_vars
  /\ [](\A p \in Procs :
          cmd[p] = "start" =>
            \A k \in 1..Len(issued[p]) :
               issued[p][k].op = "rm" =>
                  /\ k = Len(issued[p]) => pc[p] = "write"
                  /\ k < Len(issued[p]) =>
                       /\ issued[p][k + 1].op = "write"
                       /\ (issued[p][k + 1].ok /\ k + 1 = Len(issued[p])) =>
                             pc[p] = "launch"
                       /\ (issued[p][k + 1].ok /\ k + 1 < Len(issued[p])) =>
                             issued[p][k + 2].op = "run"
                       /\ ~issued[p][k + 1].ok =>
                             (pc[p] = "done" /\ result[p].stage = "write"))

\* a start whose pre-clean removal failed has launched the server
C20_Witness ==
  \E p \in Procs :
    /\ pc[p] = "done"
    /\ cmd[p] = "start"
    /\ result[p].tag = "ok"
    /\ \E k \in 1..Len(issued[p]) : issued[p][k].op = "rm" /\ ~issued[p][k].ok

\* the cache entry download_models asks for, for a selection
TargetKey(m) ==
  LET t == ExtractHfRepoAndFile(m.name, m.quant) IN
  [repo |-> t.repo, file |-> t.file.val]

\* the selections among the first n that download_models does not skip
Fetchable(n) ==
  {k \in 1..n : k <= Len(models) /\ TargetKey(models[k]).repo # <<>>}

\* the positions of the fetches in the operations of a command
FetchesOf(log) == {k \in 1..Len(log) : log[k].op = "fetch"}

\* C21: the download step takes the targets one at a time in input order
\* and stops at the first failed fetch: it returns an error, nothing is
\* fetched or checked for a later target, and the earlier targets are in
\* the cache.
C21_StopsAtFirstFailure ==
  /\ [](\A p \in Procs :
          (cmd[p] = "start" /\ idx[p] >= 1) =>
             /\ idx[p] <= Len(models) + 1
             /\ \A k \in Fetchable(idx[p] - 1) : TargetKey(models[k]) \in cache
             /\ Cardinality({k \in FetchesOf(issued[p]) : issued[p][k].ok})
                  = Cardinality(Fetchable(idx[p] - 1))
             /\ \A k \in FetchesOf(issued[p]) :
                  ~issued[p][k].ok =>
                     /\ k = Len(issued[p])
                     /\ pc[p] = "done"
                     /\ result[p].tag = "err"
                     /\ result[p].stage = "download"
                     /\ idx[p] \in Fetchable(idx[p]))
  /\ [][\A p \in Procs :
          (pc[p] = "download" /\ idx[p] >= 1) =>
             /\ idx'[p] \in {idx[p], idx[p] + 1}
             /\ cache \subseteq cache'
             /\ IF idx[p] <= Len(models)
                  THEN cache' \ cache \subseteq {TargetKey(models[idx[p]])}
                  ELSE cache' = cache
             /\ (pc'[p] = "done" /\ idx[p] <= Len(models)) =>
                  (cache' = cache /\ idx'[p] = idx[p])]_vars

\* the fetch of the second target failed after the first was fetched
C21_Witness ==
  \E p \in Procs :
    /\ pc[p] = "done"
    /\ result[p].stage = "download"
    /\ idx[p] = 2
    /\ Fetchable(2) = {1, 2}
    /\ TargetKey(models[1]) \in cache
    /\ TargetKey(models[2]) \notin cache

\* the cache key of a selection with a quantization tag
DynamicKey(m) ==
  [repo |-> <<"b","a","r","t","o","w","s","k","i","/">> \o SecondSegment(m.name)
              \o <<"-","G","G","U","F">>,
   file |-> SecondSegment(m.name) \o <<"-">> \o m.quant.val
              \o <<".","g","g","u","f">>]

\* the download step of the command has returned Ok
DownloadReturnedOk(p) ==
  \E k \in 1..Len(issued[p]) : issued[p][k].op = "download" /\ issued[p][k].ok

\* C22: the download step fetches nothing and reports no error for a
\* selection whose resolved repo is empty (one with no quantization tag);
\* every selection with a tag is verified or fetched under its
\* (repo, file) key.
C22_EmptyRepoSkipped ==
  /\ [](/\ \A e \in cache : e.repo # <<>>
        /\ \A p \in Procs :
             (cmd[p] = "start" /\ DownloadReturnedOk(p)) =>
                \A k \in 1..Len(models) :
                   models[k].quant.some => DynamicKey(models[k]) \in cache)
  /\ [][\A p \in Procs :
          (pc[p] = "download" /\ idx[p] \in 1..Len(models)) =>
             IF models[idx[p]].quant.some
               THEN \/ /\ DynamicKey(models[idx[p]]) \in cache'
                       /\ issued'[p] = Append(issued[p], Op("fetch", TRUE, <<>>, FALSE))
                       /\ idx'[p] = idx[p] + 1
                    \/ /\ result'[p].tag = "err"
                       /\ issued'[p] = Append(issued[p], Op("fetch", FALSE, <<>>, FALSE))
                       /\ cache' = cache
               ELSE /\ cache' = cache
                    /\ issued'[p] = issued[p]
                    /\ result'[p] = result[p]
                    /\ pc'[p] = "download"
                    /\ idx'[p] = idx[p] + 1]_vars

\* the download step returned Ok for a selection with no tag followed by one
\* with a tag, and the cache holds the key of the second only
C22_Witness ==
  \E p \in Procs :
    /\ cmd[p] = "start"
    /\ DownloadReturnedOk(p)
    /\ Len(models) = 2
    /\ ~models[1].quant.some
    /\ models[2].quant.some
    /\ cache = {DynamicKey(models[2])}

\* a command has appended a successful write of llama-swap.yaml to its
\* operations in this step
ConfigWritten ==
  \E p \in Procs :
    /\ Len(issued'[p]) = Len(issued[p]) + 1
    /\ issued'[p][Len(issued'[p])] = Op("write", TRUE, <<>>, FALSE)

\* C23, as claimed: the entries of the models directory, the cached weights
\* and the llama-swap.yaml start puts there, are only added: none is
\* overwritten, changed or removed.
C23_DirectoryAppendOnly ==
  [][/\ cache \subseteq cache'
     /\ configFile.present => (configFile' = configFile /\ ~ConfigWritten)]_vars

\* C23, amended: the weight entries of the models directory are only added,
\* by the download step and by no other operation; llama-swap.yaml in the
\* same directory is written by the write step of a start only, which
\* overwrites it, and it is never removed.
C23_WeightsAppendOnly ==
  [][/\ cache \subseteq cache'
     /\ cache' # cache =>
          \E p \in Procs :
             /\ pc[p] = "download"
             /\ idx[p] \in 1..Len(models)
             /\ cache' = cache \cup {TargetKey(models[idx[p]])}
     /\ configFile.present => configFile'.present
     /\ (ConfigWritten \/ configFile' # configFile) =>
          \E p \in Procs : pc[p] = "write" /\ cmd[p] = "start"]_vars

\* a second start has written llama-swap.yaml again, the cache holding two
\* weight entries
C23_Witness ==
  /\ Cardinality(cache) = 2
  /\ last \in {"gpu", "cpu"}
  /\ configFile.present
  /\ \E p \in Procs :
       /\ cmd[p] = "start"
       /\ pc[p] = "launch"
       /\ issued[p][Len(issued[p])] = Op("write", TRUE, <<>>, FALSE)

\* C24: on the fallback path the announcement comes after the failed first
\* launch and before the second launch is issued; every second launch has
\* the announcement right before it.
C24_AnnouncedBeforeRetry ==
  \A p \in Procs :
    /\ pc[p] = "fallback" =>
         /\ Len(issued[p]) >= 2
         /\ issued[p][Len(issued[p])].op = "announce"
         /\ Cardinality(RunsOf(issued[p])) = 1
    /\ \A k \in 1..Len(issued[p]) :
         /\ issued[p][k].op = "announce" =>
              /\ k > 1
              /\ issued[p][k - 1].op = "run"
              /\ ~issued[p][k - 1].ok
              /\ \A j \in RunsOf(issued[p]) : j = k - 1 \/ j > k
         /\ (issued[p][k].op = "run" /\ \E j \in RunsOf(issued[p]) : j < k) =>
              /\ issued[p][k - 1].op = "announce"
              /\ Cardinality({j \in 1..Len(issued[p]) :
                                issued[p][j].op = "announce"}) = 1

\* a start has made its second launch after the announcement
C24_Witness ==
  \E p \in Procs :
    /\ pc[p] = "done"
    /\ cmd[p] = "start"
    /\ Cardinality(RunsOf(issued[p])) = 2
    /\ issued[p][Len(issued[p]) - 1].op = "announce"

\* the positions of an operation in the operations of a command
OpsOf(log, name) == {k \in 1..Len(log) : log[k].op = name}

\* C25: a start issues the removal of the named instance once, before it
\* writes the configuration and before its first launch, and none between
\* the failed first launch and the fallback launch: the fallback launch meets
\* what the first attempt left under the name.
C25_OneRemovalBeforeLaunch ==
  /\ [](\A p \in Procs :
          cmd[p] = "start" =>
             /\ Cardinality(OpsOf(issued[p], "rm")) <= 1
             /\ \A k \in OpsOf(issued[p], "write") \cup RunsOf(issued[p])
                         \cup OpsOf(issued[p], "announce") :
                  \E r \in OpsOf(issued[p], "rm") : r < k
             /\ \A w \in OpsOf(issued[p], "write") :
                  \A k \in RunsOf(issued[p]) : w < k)
  /\ [][\A p \in Procs :
          pc[p] = "fallback" =>
             /\ pc'[p] = "fallback" => containers' = containers
             /\ (pc'[p] # "fallback" /\ runtime = "up"
                 /\ \E c \in containers : c.name = "opencode-llm") =>
                  /\ containers' = containers
                  /\ result'[p].tag = "err"
                  /\ result'[p].stderr = ErrConflict]_vars

\* the fallback launch was refused because the failed first attempt had
\* left an instance under the name
C25_Witness ==
  \E p \in Procs :
    /\ pc[p] = "done"
    /\ cmd[p] = "start"
    /\ result[p].stage = "fallback"
    /\ result[p].stderr = ErrConflict
    /\ \E c \in containers : c.name = "opencode-llm" /\ c.state = "created" /\ c.gpu

\* the command is a start that has issued its pre-clean removal; ok tells
\* whether only a removal that succeeded counts
PreCleaned(p, ok) ==
  /\ cmd[p] = "start"
  /\ \E k \in OpsOf(issued[p], "rm") : ok => issued[p][k].ok

\* after the pre-clean of p no instance is under the name until p launches,
\* and p, when it has failed, has left no server running
NoOldServer(p) ==
  /\ RunsOf(issued[p]) = {} => Named(containers, "opencode-llm") = {}
  /\ (pc[p] = "done" /\ result[p].tag = "err") =>
        \A c \in Named(containers, "opencode-llm") : c.state # "running"

\* C26, as claimed: once the runtime check of a start has passed, the
\* instance that was under the name is removed in every execution, so a
\* start that fails ends with no server running.
C26_OldInstanceAlwaysRemoved ==
  \A p \in Procs : PreCleaned(p, FALSE) => NoOldServer(p)

\* C26, amended: a start whose pre-clean removal succeeded has removed the
\* instance that was under the name, also when its write or every launch
\* fails (it ends with no server running); a removal that failed leaves the
\* instances as they were, and the start goes on.
C26_RemovedWhenRemovalSucceeds ==
  /\ [](\A p \in Procs : PreCleaned(p, TRUE) => NoOldServer(p))
  /\ [][\A p \in Procs :
          (pc[p] = "preclean" /\ pc'[p] # "preclean") =>
             /\ ~issued'[p][Len(issued'[p])].ok => containers' = containers
             /\ pc'[p] = "write"]_vars

\* a start that followed a successful start has removed the running server
\* and then failed
C26_Witness ==
  \E p \in Procs :
    /\ last \in {"gpu", "cpu"}
    /\ PreCleaned(p, TRUE)
    /\ pc[p] = "done"
    /\ result[p].tag = "err"
    /\ result[p].stage \in {"write", "launch", "fallback"}
    /\ \A c \in containers : c.state # "running"

\* the instances as the runtime lists them: identity, name and state
Listed(cs) == {<<c.id, c.name, c.image, c.state>> : c \in cs}

\* C27: a start that ends with the download error has not touched the
\* runtime: the commands of the download step leave the instances and
\* llama-swap.yaml as they are, an instance running under the name before
\* the start is running after the command has exited, and the start has
\* issued no removal, write or launch.
C27_DownloadFailureLeavesRuntime ==
  /\ [][\A p \in Procs :
          (cmd'[p] = "start" /\ pc'[p] = "done" /\ result'[p].stage = "download") =>
             /\ Listed(containers') = Listed(containers)
             /\ configFile' = configFile]_vars
  /\ [][\A p \in Procs :
          (cmd[p] = "start"
           /\ (pc[p] = "download"
               \/ (pc[p] = "done" /\ result[p].stage = "download"))) =>
             /\ Listed(containers') = Listed(containers)
             /\ configFile' = configFile]_vars
  /\ [](\A p \in Procs :
          (cmd[p] = "start" /\ pc[p] = "done" /\ result[p].stage = "download") =>
             \A k \in 1..Len(issued[p]) :
                issued[p][k].op \in {"fetch", "download"})

\* a start that followed a successful start has ended with the download
\* error, the server still running and llama-swap.yaml in place
C27_Witness ==
  \E p \in Procs :
    /\ last \in {"gpu", "cpu"}
    /\ cmd[p] = "start"
    /\ pc[p] = "done"
    /\ result[p].stage = "download"
    /\ configFile.present
    /\ \E c \in Named(containers, ContainerName) : c.state = "running"

\* the positions of the selections that qualify for the persistent group,
\* and of those that do not
Qualifying == {k \in 1..Len(models) : HoldsGroupToken(models[k].name)}

Standard == (1..Len(models)) \ Qualifying

\* the least position of a non-empty set of positions
First(S) == CHOOSE k \in S : \A j \in S : k <= j

\* C28: when init writes the provider configuration, the main model is the
\* first selection that does not qualify for the persistent group, or
\* "default" when every selection qualifies; the autocomplete model is the
\* first selection that qualifies, and no autocomplete entry is written when
\* none does.
C28_ProviderModels ==
  [][\A p \in Procs :
       (pc[p] = "configure" /\ pc'[p] = "save" /\ opencode'.object) =>
          /\ opencode'.llm.some
          /\ opencode'.llm.val =
               IF Standard = {} THEN <<"d","e","f","a","u","l","t">>
               ELSE models[First(Standard)].name
          /\ IF Qualifying = {}
               THEN opencode'.auto = LoadOpencode(opencode).auto
               ELSE opencode'.auto = SomeName(models[First(Qualifying)].name)]_vars
====
